---- MODULE Spec2Model ----
(***************************************************************************)
(* Model of the batch video converter of cw-roy/mediaconv_CL.              *)
(*                                                                         *)
(* The current script is mediaconv.py (scan_directory,                     *)
(* check_file_convertibility, output_path, execute_ffmpeg, convert_files,  *)
(* summary_info, main).  main.py is the earlier script with the same scan  *)
(* / convert / log shape; its scan_directory and convert_files are         *)
(* modelled next to the ones of mediaconv.py and selected by the variable  *)
(* "variant".                                                              *)
(*                                                                         *)
(* File names and paths are sequences of tokens, the file system is the    *)
(* set of names present in the output directory, the external probe        *)
(* (ffprobe) and transcoder (ffmpeg) are nondeterministic choices over     *)
(* their possible results.                                                 *)
(***************************************************************************)
EXTENDS Integers, Sequences, FiniteSets, TLC

(***************************************************************************)
(* Bounds of the model.                                                    *)
(***************************************************************************)
\* largest number of entries os.scandir yields for the input directory
MaxEntries == 3
\* largest size in bytes of an input file or of a written output file
MaxSize == 2
\* number of base-1024 digits of the byte counts given to get_file_size on
\* its own: the counts are below 1024^MaxLimbs
MaxLimbs == 5

(***************************************************************************)
(* The finite universe the inputs are drawn from.                          *)
(***************************************************************************)
\* the names (stem, extension) the input directory may hold, in the order
\* in which os.scandir yields those that are present: two with the same
\* stem, one whose stem equals theirs once its space is replaced by an
\* underscore, one with another stem
Listing ==
    << [stem |-> <<"a", "_", "b">>, ext |-> ".avi"],
       [stem |-> <<"c">>,           ext |-> ".avi"],
       [stem |-> <<"a", "_", "b">>, ext |-> ".mkv"],
       [stem |-> <<"a", " ", "b">>, ext |-> ".avi"] >>

EntryNames == {Listing[k] : k \in 1..Len(Listing)}

\* what os.scandir reports about an entry
EntryKinds == {"file", "dir", "other"}

\* results of the ffprobe call: exit 0 with a codec name on stdout, exit 0
\* with empty stdout, non-zero exit, and ffprobe could not be started at all
\* (subprocess.run raises an OSError such as FileNotFoundError)
ProbeResults == {"codec", "no_codec", "nonzero", "not_started"}

\* results of the ffmpeg call: exit 0 with the output written, non-zero exit
\* with nothing written, non-zero exit with a partial output file left behind
FfmpegResults == {"zero", "nonzero", "nonzero_partial"}

Sizes == 1..MaxSize

\* names that may be present in the output directory before the run; any
\* subset is, so that the name sequence of a stem may start with a gap
PreExisting ==
    { <<"a", "_", "b", "_converted", ".mp4">>,
      <<"a", "_", "b", "_converted", "_", "1", ".mp4">>,
      <<"a", "_", "b", "_converted", "_", "2", ".mp4">> }

Variants == {"mediaconv", "main"}

\* what the path given for the input or the output directory is on disk
PathKinds == {"dir", "file", "missing"}

(***************************************************************************)
(* Pure helpers.                                                           *)
(***************************************************************************)
DecimalDigits == <<"0", "1", "2", "3", "4", "5", "6", "7", "8", "9">>

\* the decimal rendering of a counter inside an f-string
RECURSIVE str(_)
str(n) ==
    IF n < 10 THEN <<DecimalDigits[n + 1]>>
    ELSE str(n \div 10) \o <<DecimalDigits[(n % 10) + 1]>>

\* file_prefix.replace(" ", "_")
replace(s) == [k \in 1..Len(s) |-> IF s[k] = " " THEN "_" ELSE s[k]]

\* f"{converted_folder}/{file_prefix}_converted.mp4"
first_name(file_prefix) == file_prefix \o <<"_converted", ".mp4">>

\* f"{converted_folder}/{file_prefix}_converted_{counter}.mp4"
numbered_name(file_prefix, counter) ==
    file_prefix \o <<"_converted", "_">> \o str(counter) \o <<".mp4">>

\* output_path with an "if" in place of the loop: the numbered name is
\* returned without looking whether it exists
output_path_checked_once(exists, file_prefix, counter) ==
    IF first_name(file_prefix) \notin exists THEN first_name(file_prefix)
    ELSE numbered_name(file_prefix, counter + 1)

\* the loop of output_path (mediaconv.py), from a given counter on
RECURSIVE output_path_loop(_, _, _)
output_path_loop(exists, file_prefix, counter) ==
    LET output_file_path ==
            IF counter = 0 THEN first_name(file_prefix)
            ELSE numbered_name(file_prefix, counter)
    IN  IF output_file_path \notin exists THEN output_file_path
        ELSE output_path_loop(exists, file_prefix, counter + 1)

\* output_path(converted_folder, file_prefix): exists is the set of names
\* present in converted_folder at call time
output_path(exists, file_prefix) == output_path_loop(exists, file_prefix, 0)

\* the inline while loop of convert_files in main.py
RECURSIVE main_path_loop(_, _, _, _)
main_path_loop(exists, file_prefix, output_file_path, counter) ==
    IF output_file_path \notin exists THEN output_file_path
    ELSE main_path_loop(exists, file_prefix,
                        numbered_name(file_prefix, counter), counter + 1)

main_output_path(exists, file_prefix) ==
    main_path_loop(exists, file_prefix, first_name(file_prefix), 1)

\* check_file_convertibility of mediaconv.py: (result, log_message)
check_file_convertibility(name, probe) ==
    IF probe = "codec"
    THEN [result |-> TRUE,  log_message |-> [kind |-> "can_be_converted", name |-> name]]
    ELSE IF probe = "no_codec"
    THEN [result |-> FALSE, log_message |-> [kind |-> "problem_found", name |-> name]]
    ELSE [result |-> FALSE, log_message |-> [kind |-> "error_checking", name |-> name]]

\* check_file_convertibility of main.py: a boolean
main_check_file_convertibility(probe) == probe = "codec"

\* A byte count is the sequence of its base-1024 digits, least significant
\* first.  file_size / 1024.0 is exact in floating point for these counts, so
\* after k divisions the value is the count with its k low digits behind the
\* point.
LimbValues == {0, 1, 256, 512, 1023}
ByteCounts == [1..MaxLimbs -> LimbValues]

Units == <<"B", "KB", "MB", "GB">>

\* file_size < 1024.0 after k divisions
below_1024(limbs, k) == \A i \in (k + 2)..Len(limbs) : limbs[i] = 0

\* ten times the fraction held by the k low digits: the carry out of digit j
\* and the digit left at place j
RECURSIVE times_ten_carry(_, _)
times_ten_carry(limbs, j) ==
    IF j = 0 THEN 0 ELSE (10 * limbs[j] + times_ten_carry(limbs, j - 1)) \div 1024

times_ten_digit(limbs, j) == (10 * limbs[j] + times_ten_carry(limbs, j - 1)) % 1024

\* f"{file_size:.1f} {unit}" after k divisions: the value in tenths, rounded
\* to nearest with ties to even as the float formatting does
format_1f(limbs, k, unit) ==
    LET whole == IF k + 1 <= Len(limbs) THEN limbs[k + 1] ELSE 0
        tenths == 10 * whole + times_ten_carry(limbs, k)
        above_half == k > 0 /\
            \/ times_ten_digit(limbs, k) > 512
            \/ /\ times_ten_digit(limbs, k) = 512
               /\ \E j \in 1..(k - 1) : times_ten_digit(limbs, j) # 0
        half == k > 0 /\ times_ten_digit(limbs, k) = 512
                      /\ \A j \in 1..(k - 1) : times_ten_digit(limbs, j) = 0
        rounded == IF above_half THEN tenths + 1
                   ELSE IF half THEN tenths + (tenths % 2)
                   ELSE tenths
    IN  [returned |-> "str", whole |-> rounded \div 10, tenth |-> rounded % 10,
         unit |-> unit]

\* the function falls off its end: Python returns None
None == [returned |-> "None", whole |-> 0, tenth |-> 0, unit |-> ""]

NotCalled == [returned |-> "not_called", whole |-> 0, tenth |-> 0, unit |-> ""]

\* the for loop of get_file_size, from the unit after k divisions on
RECURSIVE get_file_size_loop(_, _)
get_file_size_loop(limbs, k) ==
    IF k >= Len(Units) THEN None
    ELSE IF below_1024(limbs, k) THEN format_1f(limbs, k, Units[k + 1])
    ELSE get_file_size_loop(limbs, k + 1)

get_file_size(limbs) == get_file_size_loop(limbs, 0)

\* the only handler of check_file_convertibility (both scripts) is for
\* subprocess.CalledProcessError: the error of a probe that could not be
\* started leaves the function
probe_raises(probe) == probe = "not_started"

(***************************************************************************)
(* State.                                                                  *)
(***************************************************************************)
VARIABLES
    variant,              \* which script runs
    pc,                   \* "start", "config_error", "start_aborted", "scan",
                          \* "scan_aborted", "running", "finalized",
                          \* "returned", "aborted"
    input_directory,      \* what the input path is on disk
    output_directory,     \* what the output path is on disk
    log_file_created,     \* the log file has been created
    scanned,              \* entries os.scandir has yielded so far, in order
    matching_files,       \* scan_directory: eligible entries in discovery order
    log_messages,         \* scan_directory: the scan log
    exists,               \* names present in the output directory
    next_file,            \* position of the for loop of convert_files
    original_total_size,  \* convert_files
    final_total_size,     \* convert_files
    log,                  \* lines of the conversion and summary sections
    attempts,             \* what happened to each candidate, in order
    file_size,            \* get_file_size: the argument, in base 1024
    rendered,             \* get_file_size: the value returned
    queue,                \* develop.py: the asyncio.Queue of paths
    unfinished_tasks,     \* develop.py: the queue's count of unfinished tasks
    main_task,            \* develop.py: where the coroutine main is
    consumer_task         \* develop.py: where process_conversion_queue is

\* the variables of a run of mediaconv.py or main.py
run_vars == <<variant, pc, input_directory, output_directory, log_file_created,
              scanned, matching_files, log_messages, exists, next_file,
              original_total_size, final_total_size, log, attempts>>

\* the variables of a call of get_file_size on its own
size_vars == <<file_size, rendered>>

\* the variables of a run of develop.py
develop_vars == <<queue, unfinished_tasks, main_task, consumer_task>>

vars == <<run_vars, size_vars, develop_vars>>

\* the values of the variables of the parts that are not running
SizeIdle == file_size = <<>> /\ rendered = NotCalled

DevelopIdle ==
    /\ queue = <<>>
    /\ unfinished_tasks = 0
    /\ main_task = "not_running"
    /\ consumer_task = "not_running"

Init ==
    /\ variant \in Variants
    /\ pc = "start"
    /\ input_directory \in PathKinds
    /\ output_directory \in PathKinds
    /\ log_file_created = FALSE
    /\ scanned = <<>>
    /\ matching_files = <<>>
    /\ log_messages = <<>>
    /\ exists \in (IF output_directory = "dir" THEN SUBSET PreExisting ELSE {{}})
    /\ next_file = 1
    /\ original_total_size = 0
    /\ final_total_size = 0
    /\ log = <<>>
    /\ attempts = <<>>
    /\ SizeIdle
    /\ DevelopIdle

(***************************************************************************)
(* main, up to the scan.                                                   *)
(***************************************************************************)
\* validate_directories: os.path.exists of both paths
validate_directories(input, output) == input # "missing" /\ output # "missing"

\* main of mediaconv.py up to the call of scan_directory: the two paths are
\* validated, then setup_logger creates the log file inside the output path
mediaconv_start ==
    IF ~validate_directories(input_directory, output_directory)
    THEN \* FileNotFoundError leaves main
         /\ pc' = "config_error"
         /\ UNCHANGED <<output_directory, log_file_created>>
    ELSE IF output_directory # "dir"
    THEN \* logging.basicConfig cannot open a file below a regular file
         /\ pc' = "start_aborted"
         /\ UNCHANGED <<output_directory, log_file_created>>
    ELSE /\ log_file_created' = TRUE
         /\ pc' = "scan"
         /\ UNCHANGED output_directory

\* main of main.py up to the call of scan_directory: converted_media is
\* created when absent and the log file is opened for writing
main_start ==
    IF output_directory = "file"
    THEN \* mkdir(exist_ok=True) raises FileExistsError
         /\ pc' = "start_aborted"
         /\ UNCHANGED <<output_directory, log_file_created>>
    ELSE /\ output_directory' = "dir"
         /\ log_file_created' = TRUE
         /\ pc' = "scan"

Start ==
    /\ pc = "start"
    /\ IF variant = "mediaconv" THEN mediaconv_start ELSE main_start
    /\ UNCHANGED <<variant, input_directory, scanned, matching_files, log_messages,
                   exists, next_file, original_total_size, final_total_size,
                   log, attempts, size_vars, develop_vars>>

\* os.scandir raises when the input path is not a directory; no handler
ScanFails ==
    /\ pc = "scan"
    /\ input_directory # "dir"
    /\ pc' = "scan_aborted"
    /\ UNCHANGED <<variant, input_directory, output_directory, log_file_created,
                   scanned, matching_files, log_messages, exists, next_file,
                   original_total_size, final_total_size, log, attempts,
                   size_vars, develop_vars>>

(***************************************************************************)
(* scan_directory: one iteration of the loop over os.scandir.              *)
(***************************************************************************)
\* the place of a name in the directory order
position(name) == CHOOSE k \in 1..Len(Listing) : Listing[k] = name

\* the place of the entry os.scandir yielded last
last_position == IF scanned = <<>> THEN 0 ELSE position(scanned[Len(scanned)].name)

\* mediaconv_scan_entry with matching_files.insert(0, ...) in place of
\* append: the eligible entries end up in reverse discovery order
mediaconv_scan_entry_insert_first(entry) ==
    IF entry.kind = "dir"
    THEN UNCHANGED <<matching_files, log_messages, pc>>
    ELSE IF entry.kind = "file"
    THEN IF probe_raises(entry.probe)
         THEN /\ pc' = "scan_aborted"
              /\ UNCHANGED <<matching_files, log_messages>>
         ELSE LET verdict == check_file_convertibility(entry.name, entry.probe)
              IN  /\ IF verdict.result
                     THEN /\ matching_files' = <<entry.name>> \o matching_files
                          /\ UNCHANGED log_messages
                     ELSE /\ log_messages' = Append(log_messages, verdict.log_message)
                          /\ UNCHANGED matching_files
                  /\ UNCHANGED pc
    ELSE /\ log_messages' =
                Append(log_messages, [kind |-> "not_a_file", name |-> entry.name])
         /\ UNCHANGED <<matching_files, pc>>

\* the body of the for loop of scan_directory in mediaconv.py
mediaconv_scan_entry(entry) ==
    IF entry.kind = "dir"
    THEN UNCHANGED <<matching_files, log_messages, pc>>
    ELSE IF entry.kind = "file"
    THEN IF probe_raises(entry.probe)
         THEN \* the error leaves scan_directory and main
              /\ pc' = "scan_aborted"
              /\ UNCHANGED <<matching_files, log_messages>>
         ELSE LET verdict == check_file_convertibility(entry.name, entry.probe)
              IN  /\ IF verdict.result
                     THEN /\ matching_files' = Append(matching_files, entry.name)
                          /\ UNCHANGED log_messages
                     ELSE /\ log_messages' = Append(log_messages, verdict.log_message)
                          /\ UNCHANGED matching_files
                  /\ UNCHANGED pc
    ELSE /\ log_messages' =
                Append(log_messages, [kind |-> "not_a_file", name |-> entry.name])
         /\ UNCHANGED <<matching_files, pc>>

\* the body of the for loop of scan_directory in main.py
main_scan_entry(entry) ==
    IF entry.kind = "file"
    THEN IF probe_raises(entry.probe)
         THEN \* the error leaves scan_directory and main
              /\ pc' = "scan_aborted"
              /\ UNCHANGED <<matching_files, log_messages>>
         ELSE /\ IF main_check_file_convertibility(entry.probe)
                 THEN /\ matching_files' = Append(matching_files, entry.name)
                      /\ UNCHANGED log_messages
                 ELSE /\ log_messages' =
                             Append(log_messages,
                                    [kind |-> "cannot_be_converted", name |-> entry.name])
                      /\ UNCHANGED matching_files
              /\ UNCHANGED pc
    ELSE /\ log_messages' =
                Append(log_messages, [kind |-> "not_a_file", name |-> entry.name])
         /\ UNCHANGED <<matching_files, pc>>

\* the entries os.scandir may yield: only a regular file is probed
DirEntries ==
    { [name |-> n, kind |-> "file", probe |-> p] : n \in EntryNames, p \in ProbeResults }
    \cup
    { [name |-> n, kind |-> k, probe |-> "not_probed"] :
          n \in EntryNames, k \in EntryKinds \ {"file"} }

ScanEntry ==
    /\ pc = "scan"
    /\ input_directory = "dir"
    /\ Len(scanned) < MaxEntries
    /\ \E entry \in DirEntries :
          /\ position(entry.name) > last_position
          /\ scanned' = Append(scanned, entry)
          /\ IF variant = "mediaconv"
             THEN mediaconv_scan_entry(entry)
             ELSE main_scan_entry(entry)
    /\ UNCHANGED <<variant, input_directory, output_directory, log_file_created,
                   exists, next_file, original_total_size,
                   final_total_size, log, attempts, size_vars, develop_vars>>

\* ScanEnd without the early return of main: convert_files is called with
\* whatever scan_directory found
ScanEnd_without_return ==
    /\ pc = "scan"
    /\ input_directory = "dir"
    /\ IF matching_files = <<>>
       THEN log_messages' =
                Append(log_messages, [kind |-> "no_matching_files", name |-> <<>>])
       ELSE UNCHANGED log_messages
    /\ pc' = "running"
    /\ next_file' = 1
    /\ original_total_size' = 0
    /\ final_total_size' = 0
    /\ UNCHANGED <<variant, input_directory, output_directory, log_file_created,
                   scanned, matching_files, exists, log, attempts,
                   size_vars, develop_vars>>

\* the end of scan_directory and what main does with its result: with no
\* matching file the "No matching files" line is appended and main returns,
\* otherwise convert_files starts with both totals at zero
ScanEnd ==
    /\ pc = "scan"
    /\ input_directory = "dir"
    /\ IF matching_files = <<>>
       THEN /\ log_messages' =
                   Append(log_messages, [kind |-> "no_matching_files", name |-> <<>>])
            /\ pc' = "returned"
       ELSE /\ UNCHANGED log_messages
            /\ pc' = "running"
    /\ next_file' = 1
    /\ original_total_size' = 0
    /\ final_total_size' = 0
    /\ UNCHANGED <<variant, input_directory, output_directory, log_file_created,
                   scanned, matching_files, exists, log, attempts,
                   size_vars, develop_vars>>

(***************************************************************************)
(* convert_files: one iteration of the loop over file_paths.               *)
(***************************************************************************)
\* a line of the conversion section or of the summary
LogLine(kind, idx, original, output, new) ==
    [kind |-> kind, idx |-> idx, original |-> original, output |-> output, new |-> new]

\* what happened to one candidate
Attempt(idx, input_found, original, output, at_call, ffmpeg, new) ==
    [idx |-> idx, input_found |-> input_found, original |-> original,
     output |-> output, exists_at_call |-> at_call, ffmpeg |-> ffmpeg, new |-> new]

\* the transcoder leaves a file at the output path
ffmpeg_writes(result) == result \in {"zero", "nonzero_partial"}

\* execute_ffmpeg of mediaconv.py: the log after the call.  A non-zero exit
\* is caught and logged here; nothing is returned or raised to the caller
execute_ffmpeg(lg, idx, result) ==
    IF result = "zero" THEN lg
    ELSE Append(lg, LogLine("error_converting", idx, 0, <<>>, 0))

\* the output directory after output_path has returned output_file_path, if
\* the call created the file it names
output_path_exists_after_reserving(dir, output_file_path) == dir \cup {output_file_path}

\* the output directory after output_path has returned output_file_path: the
\* function joins names and asks os.path.exists, nothing else
output_path_exists_after(dir, output_file_path) == dir

\* os.path.getsize(file_path) raised FileNotFoundError and the error is
\* passed on instead of being handled
file_not_found_reraised(idx) ==
    /\ pc' = "aborted"
    /\ attempts' = Append(attempts,
           Attempt(idx, FALSE, 0, <<>>, exists, "not_run", 0))
    /\ UNCHANGED <<exists, next_file, original_total_size, final_total_size, log>>

\* os.path.getsize(file_path) raised FileNotFoundError on the first statement
\* of the try block: the handler logs the error and the loop goes on
file_not_found(idx) ==
    /\ log' = Append(log, LogLine("file_not_found", idx, 0, <<>>, 0))
    /\ attempts' = Append(attempts,
           Attempt(idx, FALSE, 0, <<>>, exists, "not_run", 0))
    /\ next_file' = idx + 1
    /\ UNCHANGED <<pc, exists, original_total_size, final_total_size>>

\* the body of the for loop of convert_files in mediaconv.py
mediaconv_convert_file(idx, input_found, size, result, written) ==
    IF ~input_found
    THEN file_not_found(idx)
    ELSE LET file_prefix == replace(matching_files[idx].stem)
             output_file_path == output_path(exists, file_prefix)
             log_after_ffmpeg == execute_ffmpeg(log, idx, result)
             exists_after_path == output_path_exists_after(exists, output_file_path)
             exists_after == IF ffmpeg_writes(result)
                             THEN exists_after_path \cup {output_file_path}
                             ELSE exists_after_path
         IN  /\ original_total_size' = original_total_size + size
             /\ exists' = exists_after
             /\ attempts' = Append(attempts,
                    Attempt(idx, TRUE, size, output_file_path, exists, result,
                            IF ffmpeg_writes(result) THEN written ELSE 0))
             /\ IF output_file_path \in exists_after
                THEN \* os.path.getsize(output_file_path) succeeds
                     /\ final_total_size' = final_total_size + written
                     /\ log' = Append(log_after_ffmpeg,
                            LogLine("converted", idx, size, output_file_path, written))
                ELSE \* os.path.getsize(output_file_path) raises FileNotFoundError
                     /\ UNCHANGED final_total_size
                     /\ log' = Append(log_after_ffmpeg,
                            LogLine("file_not_found", idx, 0, <<>>, 0))
             /\ next_file' = idx + 1
             /\ UNCHANGED pc

\* the body of the for loop of convert_files in main.py
main_convert_file(idx, input_found, size, result, written) ==
    IF ~input_found
    THEN \* os.path.getsize(file_path) raises FileNotFoundError, which no
         \* handler of convert_files or main catches
         /\ pc' = "aborted"
         /\ attempts' = Append(attempts,
                Attempt(idx, FALSE, 0, <<>>, exists, "not_run", 0))
         /\ UNCHANGED <<exists, next_file, original_total_size, final_total_size, log>>
    ELSE LET file_prefix == replace(matching_files[idx].stem)
             output_file_path == main_output_path(exists, file_prefix)
         IN  /\ original_total_size' = original_total_size + size
             /\ exists' = IF ffmpeg_writes(result)
                          THEN exists \cup {output_file_path} ELSE exists
             /\ attempts' = Append(attempts,
                    Attempt(idx, TRUE, size, output_file_path, exists, result,
                            IF ffmpeg_writes(result) THEN written ELSE 0))
             /\ IF result = "zero"
                THEN /\ final_total_size' = final_total_size + written
                     /\ log' = Append(log,
                            LogLine("converted", idx, size, output_file_path, written))
                ELSE \* subprocess.CalledProcessError is caught
                     /\ UNCHANGED final_total_size
                     /\ log' = Append(log, LogLine("error_converting", idx, 0, <<>>, 0))
             /\ next_file' = idx + 1
             /\ UNCHANGED pc

ConvertFile ==
    /\ pc = "running"
    /\ next_file <= Len(matching_files)
    /\ \E input_found \in BOOLEAN, size \in Sizes,
          result \in FfmpegResults, written \in Sizes :
          IF variant = "mediaconv"
          THEN mediaconv_convert_file(next_file, input_found, size, result, written)
          ELSE main_convert_file(next_file, input_found, size, result, written)
    /\ UNCHANGED <<variant, input_directory, output_directory, log_file_created,
                   scanned, matching_files, log_messages, size_vars, develop_vars>>

\* the loop is exhausted: summary_info logs the two totals
Summary ==
    /\ pc = "running"
    /\ next_file > Len(matching_files)
    /\ log' = Append(log,
           LogLine("summary", 0, original_total_size, <<>>, final_total_size))
    /\ pc' = "finalized"
    /\ UNCHANGED <<variant, input_directory, output_directory, log_file_created,
                   scanned, matching_files, log_messages, exists,
                   next_file, original_total_size, final_total_size, attempts,
                   size_vars, develop_vars>>

Next == Start \/ ScanFails \/ ScanEntry \/ ScanEnd \/ ConvertFile \/ Summary

Spec == Init /\ [][Next]_vars

(***************************************************************************)
(* get_file_size on its own, for every byte count of the universe.         *)
(***************************************************************************)
\* no script is running
RunIdle ==
    /\ variant = "mediaconv"
    /\ pc = "not_running"
    /\ input_directory = "dir"
    /\ output_directory = "dir"
    /\ log_file_created = FALSE
    /\ scanned = <<>>
    /\ matching_files = <<>>
    /\ log_messages = <<>>
    /\ exists = {}
    /\ next_file = 1
    /\ original_total_size = 0
    /\ final_total_size = 0
    /\ log = <<>>
    /\ attempts = <<>>

SizeInit ==
    /\ RunIdle
    /\ DevelopIdle
    /\ file_size \in ByteCounts
    /\ rendered = NotCalled

GetFileSize ==
    /\ file_size # <<>>
    /\ rendered = NotCalled
    /\ rendered' = get_file_size(file_size)
    /\ UNCHANGED <<run_vars, develop_vars, file_size>>

SizeNext == GetFileSize

SizeSpec == SizeInit /\ [][SizeNext]_vars

(***************************************************************************)
(* develop.py: main and the consumer task process_conversion_queue on one  *)
(* event loop.  A task runs until it suspends; queue.put on the unbounded  *)
(* queue and queue.get on a non-empty queue do not suspend.                *)
(***************************************************************************)
\* check_file_convertibility of develop.py: a boolean
develop_check_file_convertibility(probe) == probe = "codec"

\* how the future of loop.run_in_executor(executor, convert_file, ...) can
\* end.  convert_file is an async def: the worker process calls it, gets a
\* coroutine object and cannot pickle it as the result, so the future always
\* carries a TypeError
ExecutorOutcomes == {"raises"}

\* main has opened the log file and created the consumer task, which has not
\* run yet
DevInit ==
    /\ RunIdle
    /\ SizeIdle
    /\ queue = <<>>
    /\ unfinished_tasks = 0
    /\ main_task = "scanning"
    /\ consumer_task = "ready"

\* the body of the for loop of scan_directory in develop.py
develop_scan_entry(entry) ==
    IF entry.kind = "file"
    THEN IF probe_raises(entry.probe)
         THEN \* the error leaves scan_directory and main; asyncio.run cancels
              \* the consumer, which has not started
              /\ main_task' = "failed"
              /\ consumer_task' = "cancelled"
              /\ UNCHANGED <<queue, unfinished_tasks>>
         ELSE IF develop_check_file_convertibility(entry.probe)
         THEN \* await queue.put(file_name.path)
              /\ queue' = Append(queue, entry.name)
              /\ unfinished_tasks' = unfinished_tasks + 1
              /\ UNCHANGED <<main_task, consumer_task>>
         ELSE UNCHANGED <<queue, unfinished_tasks, main_task, consumer_task>>
    ELSE UNCHANGED <<queue, unfinished_tasks, main_task, consumer_task>>

DevelopScanEntry ==
    /\ main_task = "scanning"
    /\ Len(scanned) < MaxEntries
    /\ \E entry \in DirEntries :
          /\ position(entry.name) > last_position
          /\ scanned' = Append(scanned, entry)
          /\ develop_scan_entry(entry)
    /\ UNCHANGED <<variant, pc, input_directory, output_directory,
                   log_file_created, matching_files, log_messages, exists,
                   next_file, original_total_size, final_total_size, log,
                   attempts, size_vars>>

\* scan_directory returns and main reaches await queue.join(): join suspends
\* while a put is not matched by task_done, otherwise main goes on to
\* await asyncio.to_thread(log_file.close)
DevelopScanEnd ==
    /\ main_task = "scanning"
    /\ main_task' = IF unfinished_tasks > 0 THEN "joining" ELSE "closing"
    /\ UNCHANGED <<run_vars, size_vars, queue, unfinished_tasks, consumer_task>>

\* process_conversion_queue runs once main is suspended: the loop test, and
\* for a non-empty queue queue.get and the submission to the executor
ConsumerRuns ==
    /\ main_task \in {"joining", "closing"}
    /\ consumer_task = "ready"
    /\ IF queue = <<>>
       THEN /\ consumer_task' = "exited"
            /\ UNCHANGED queue
       ELSE /\ queue' = Tail(queue)
            /\ consumer_task' = "awaiting_executor"
    /\ UNCHANGED <<run_vars, size_vars, unfinished_tasks, main_task>>

\* await loop.run_in_executor(...) ends: queue.task_done() follows a result,
\* an exception leaves the loop and ends the task
ExecutorResult ==
    /\ consumer_task = "awaiting_executor"
    /\ \E outcome \in ExecutorOutcomes :
          IF outcome = "returns"
          THEN /\ unfinished_tasks' = unfinished_tasks - 1
               /\ consumer_task' = "ready"
               /\ main_task' = IF main_task = "joining" /\ unfinished_tasks' = 0
                               THEN "closing" ELSE main_task
          ELSE /\ consumer_task' = "failed"
               /\ UNCHANGED <<unfinished_tasks, main_task>>
    /\ UNCHANGED <<run_vars, size_vars, queue>>

\* the log file is closed and main prints "Conversion complete"
Complete ==
    /\ main_task = "closing"
    /\ consumer_task \in {"exited", "failed"}
    /\ main_task' = "complete"
    /\ UNCHANGED <<run_vars, size_vars, queue, unfinished_tasks, consumer_task>>

DevNext ==
    DevelopScanEntry \/ DevelopScanEnd \/ ConsumerRuns \/ ExecutorResult \/ Complete

DevSpec == DevInit /\ [][DevNext]_vars

TypeOK ==
    /\ variant \in Variants
    /\ pc \in {"start", "config_error", "start_aborted", "scan", "scan_aborted",
               "running", "finalized", "returned", "aborted"}
    /\ input_directory \in PathKinds
    /\ output_directory \in PathKinds
    /\ log_file_created \in BOOLEAN
    /\ Len(scanned) <= MaxEntries
    /\ next_file \in 1..(MaxEntries + 1)
    /\ original_total_size \in 0..(MaxEntries * MaxSize)
    /\ final_total_size \in 0..(MaxEntries * MaxSize)

(***************************************************************************)
(* Vocabulary of the properties.                                           *)
(***************************************************************************)
\* positions in the log of the per-file lines written for candidate idx
PerFileLines(idx) ==
    {j \in 1..Len(log) : log[j].kind # "summary" /\ log[j].idx = idx}

\* positions in the log of the summary
SummaryLines == {j \in 1..Len(log) : log[j].kind = "summary"}

\* candidates for which an output path was allocated
Allocated == {j \in 1..Len(attempts) : attempts[j].output # <<>>}

\* candidates whose transcoding exited zero
Succeeded == {j \in 1..Len(attempts) : attempts[j].ffmpeg = "zero"}

\* candidates whose processing failed: input not found, or non-zero exit
Failed == {j \in 1..Len(attempts) : attempts[j].ffmpeg # "zero"}

\* the sanitized stem of candidate j
Prefix(j) == replace(matching_files[j].stem)

\* the n-th name of the sequence {stem}_converted.mp4, {stem}_converted_1.mp4, ...
NthName(file_prefix, n) ==
    IF n = 0 THEN file_prefix \o <<"_converted", ".mp4">>
    ELSE file_prefix \o <<"_converted", "_">> \o str(n) \o <<".mp4">>

\* sums over the first k candidates that succeeded
RECURSIVE SuccessOriginal(_)
SuccessOriginal(k) ==
    IF k = 0 THEN 0
    ELSE SuccessOriginal(k - 1)
         + (IF attempts[k].ffmpeg = "zero" THEN attempts[k].original ELSE 0)

RECURSIVE SuccessConverted(_)
SuccessConverted(k) ==
    IF k = 0 THEN 0
    ELSE SuccessConverted(k - 1)
         + (IF attempts[k].ffmpeg = "zero" THEN attempts[k].new ELSE 0)

\* the output directory as it was when the batch started
ExistsAtStart == IF attempts = <<>> THEN exists ELSE attempts[1].exists_at_call

\* the output directory held no file of the name sequence of file_prefix
\* when the batch started
NoFileForStem(file_prefix) ==
    \A path \in ExistsAtStart :
        \/ Len(path) <= Len(file_prefix)
        \/ SubSeq(path, 1, Len(file_prefix) + 1) # file_prefix \o <<"_converted">>

\* allocations for the stem of candidate j made before candidate j
PriorAllocations(j) == {k \in Allocated : k < j /\ Prefix(k) = Prefix(j)}

(***************************************************************************)
(* Properties.                                                             *)
(***************************************************************************)
\* C1: in mediaconv.py every candidate convert_files has processed has
\* exactly one per-file outcome line in the log, so at batch end the number
\* of per-file lines equals the number of eligible candidates.
C1_OneRecordPerCandidate ==
    variant = "mediaconv" =>
        /\ \A idx \in 1..Len(attempts) : Cardinality(PerFileLines(idx)) = 1
        /\ pc = "finalized" =>
              Cardinality({j \in 1..Len(log) : log[j].kind # "summary"})
                  = Len(matching_files)

\* C2: a failure of one candidate (input not found, transcoder exits
\* non-zero) never aborts the batch: no error leaves convert_files, and when
\* the run of a non-empty batch is over every candidate has been processed
\* and the summary has been emitted.
C2_FailureNeverAborts ==
    /\ pc # "aborted"
    /\ (matching_files # <<>> /\ Failed # {}
            /\ pc \notin {"scan", "scan_aborted", "running"}) =>
          /\ Len(attempts) = Len(matching_files)
          /\ SummaryLines # {}

\* C3: the output paths allocated within one batch are pairwise distinct.
C3_DistinctOutputPaths ==
    \A j \in Allocated : \A k \in Allocated :
        j # k => attempts[j].output # attempts[k].output

\* C4: at batch end the total converted size of the summary is the sum of
\* the converted sizes of the candidates whose transcoding exited zero.
C4_FinalTotalOverSuccess ==
    \A j \in SummaryLines : log[j].new = SuccessConverted(Len(attempts))

\* C5: at batch end the total original size of the summary is the sum of
\* the original sizes of the candidates whose transcoding exited zero.
C5_OriginalTotalOverSuccess ==
    \A j \in SummaryLines : log[j].original = SuccessOriginal(Len(attempts))

C7_NthAllocation ==
    \A j \in Allocated :
        NoFileForStem(Prefix(j)) =>
            attempts[j].output = NthName(Prefix(j), Cardinality(PriorAllocations(j)))

\* C8: a batch that has started on a non-empty list never stops without a
\* summary: when the run is over every candidate has a per-file line, and
\* the summary was emitted exactly once, as the last line of the log.
C8_BatchReachesFinalized ==
    /\ Cardinality(SummaryLines) <= 1
    /\ \A j \in SummaryLines : j = Len(log) /\ pc = "finalized"
    /\ (matching_files # <<>> /\ pc \notin {"scan", "scan_aborted", "running"}) =>
          /\ pc = "finalized"
          /\ Cardinality(SummaryLines) = 1
          /\ \A idx \in 1..Len(matching_files) : PerFileLines(idx) # {}

\* C9: in mediaconv.py a candidate whose transcoding exited non-zero is
\* logged as failed by execute_ffmpeg and is not treated as converted: its
\* output file is not measured and no "was converted" line is written.
C9_NonZeroExitIsFailed ==
    variant = "mediaconv" =>
        \A j \in 1..Len(attempts) :
            attempts[j].ffmpeg \in {"nonzero", "nonzero_partial"} =>
                /\ \E l \in PerFileLines(j) : log[l].kind = "error_converting"
                /\ \A l \in PerFileLines(j) : log[l].kind # "converted"

\* C10: in mediaconv.py every scanned entry is eligible exactly when it is a
\* regular file whose probe exits zero with a codec name, an eligible entry
\* has no line in the scan log, and every other entry has one line giving
\* the reason: no codec, probe exit status, or not a regular file.
ScanLines(name) == {j \in 1..Len(log_messages) : log_messages[j].name = name}

C10_FilterVerdict ==
    variant = "mediaconv" =>
        \A k \in 1..Len(scanned) :
            LET entry == scanned[k]
                eligible == \E j \in 1..Len(matching_files) : matching_files[j] = entry.name
            IN  /\ eligible <=> (entry.kind = "file" /\ entry.probe = "codec")
                /\ eligible => ScanLines(entry.name) = {}
                /\ ~eligible =>
                      \E j \in ScanLines(entry.name) :
                          log_messages[j].kind =
                              IF entry.kind # "file" THEN "not_a_file"
                              ELSE IF entry.probe = "no_codec" THEN "problem_found"
                              ELSE "error_checking"

\* C11: an error of the probe invocation (non-zero exit, or the probe could
\* not be started) never ends the scan: the entry is judged ineligible with
\* a line in the scan log and scan_directory goes on.
C11_ProbeErrorsNotFatal ==
    \A k \in 1..Len(scanned) :
        scanned[k].probe \in {"nonzero", "not_started"} =>
            /\ ScanLines(scanned[k].name) # {}
            /\ \A j \in 1..Len(matching_files) : matching_files[j] # scanned[k].name
            /\ pc # "scan_aborted"

\* C12: in mediaconv.py, when the input path or the output path is not an
\* existing directory the run ends before any work: no log file is created,
\* nothing is scanned, the probe and the transcoder are not invoked.
C12_InvalidDirectoriesFatal ==
    (variant = "mediaconv" /\ (input_directory # "dir" \/ output_directory # "dir")) =>
        /\ pc \in {"start", "config_error", "start_aborted"}
        /\ ~log_file_created
        /\ scanned = <<>>
        /\ attempts = <<>>

\* the scan is over and main went on
ScanOver == pc \in {"returned", "running", "finalized", "aborted"}

\* the place of an eligible name in matching_files, the place of a name
\* among the scanned entries
MatchIndex(name) == CHOOSE j \in 1..Len(matching_files) : matching_files[j] = name
ScanIndex(name) == CHOOSE k \in 1..Len(scanned) : scanned[k].name = name
Eligible(name) == \E j \in 1..Len(matching_files) : matching_files[j] = name

\* C13: when the scan ends with no eligible entry, the scan log ends with
\* the "No matching files" line and has a line for every ineligible file,
\* main returns, the transcoder is never invoked and neither a per-file line
\* nor a summary is written.
C13_NoEligibleNoBatch ==
    (ScanOver /\ matching_files = <<>>) =>
        /\ pc = "returned"
        /\ log_messages # <<>>
        /\ log_messages[Len(log_messages)].kind = "no_matching_files"
        /\ \A k \in 1..Len(scanned) :
              scanned[k].kind = "file" => ScanLines(scanned[k].name) # {}
        /\ log = <<>>
        /\ attempts = <<>>

\* C13 witness: main returned after a scan that met a file without a video
\* stream
C13_Witness ==
    /\ pc = "returned"
    /\ \E k \in 1..Len(scanned) : scanned[k].probe = "no_codec"

\* C14: when a run is complete, every scanned entry that was not eligible
\* has exactly one line in the scan log and is not in the batch, and every
\* eligible entry has a line in the conversion section.
C14_EveryEntryLogged ==
    pc \in {"returned", "finalized"} =>
        \A k \in 1..Len(scanned) :
            IF Eligible(scanned[k].name)
            THEN PerFileLines(MatchIndex(scanned[k].name)) # {}
            ELSE Cardinality(ScanLines(scanned[k].name)) = 1

\* C15: the candidates are in discovery order, the per-file lines are in
\* the order of the candidates, and a step of the run only appends to the
\* log: no line once written is changed or removed.
RecordsInOrder ==
    /\ \A j \in 1..Len(matching_files) : \A k \in 1..Len(matching_files) :
          j < k => ScanIndex(matching_files[j]) < ScanIndex(matching_files[k])
    /\ \A a \in 1..Len(log) : \A b \in 1..Len(log) :
          (a < b /\ log[a].kind # "summary" /\ log[b].kind # "summary")
              => log[a].idx <= log[b].idx

C15_DiscoveryOrder ==
    /\ []RecordsInOrder
    /\ [][Len(log') >= Len(log) /\ SubSeq(log', 1, Len(log)) = log]_vars

\* C15 witness: lines of two candidates have been written, an entry that
\* is not eligible having been discovered between the two
C15_Witness ==
    /\ Len(scanned) = 3
    /\ ~Eligible(scanned[2].name)
    /\ \E a \in 1..Len(log) : \E b \in 1..Len(log) :
          a < b /\ log[a].idx = 1 /\ log[b].idx = 2

\* the highest place of a byte count that holds a non-zero digit, 1 for zero
TopLimb(limbs) ==
    IF \A i \in 1..Len(limbs) : limbs[i] = 0 THEN 1
    ELSE CHOOSE i \in 1..Len(limbs) :
            limbs[i] # 0 /\ \A j \in (i + 1)..Len(limbs) : limbs[j] = 0

\* the byte count with the given low digits and zeros above
Count(low) == [i \in 1..MaxLimbs |-> IF i <= Len(low) THEN low[i] ELSE 0]

\* C16: for every byte count get_file_size returns a rendered size, whose
\* unit is the first of B, KB, MB, GB at which the repeatedly divided value
\* is below 1024; 0 gives "0.0 B", 1536 "1.5 KB", 1048576 "1.0 MB".
C16_UnitOfSize ==
    rendered # NotCalled =>
        /\ rendered.returned = "str"
        /\ TopLimb(file_size) <= Len(Units)
        /\ rendered.unit = Units[TopLimb(file_size)]
        /\ file_size = Count(<<0>>) =>
              rendered = [returned |-> "str", whole |-> 0, tenth |-> 0, unit |-> "B"]
        /\ file_size = Count(<<512, 1>>) =>
              rendered = [returned |-> "str", whole |-> 1, tenth |-> 5, unit |-> "KB"]
        /\ file_size = Count(<<0, 0, 1>>) =>
              rendered = [returned |-> "str", whole |-> 1, tenth |-> 0, unit |-> "MB"]

\* the output directory as it is after attempt j
ExistsAfter(j) == IF j < Len(attempts) THEN attempts[j + 1].exists_at_call ELSE exists

C18_VanishedInputFrame ==
    [][(/\ variant = "mediaconv"
        /\ Len(attempts') = Len(attempts) + 1
        /\ ~attempts'[Len(attempts')].input_found)
       => (/\ log' = Append(log, LogLine("file_not_found", next_file, 0, <<>>, 0))
           /\ original_total_size' = original_total_size
           /\ final_total_size' = final_total_size
           /\ exists' = exists
           /\ attempts'[Len(attempts')].output = <<>>
           /\ attempts'[Len(attempts')].ffmpeg = "not_run"
           /\ pc' = "running"
           /\ next_file' = next_file + 1
           /\ matching_files' = matching_files)]_vars

C18_Witness ==
    /\ variant = "mediaconv"
    /\ \E j \in 1..(Len(attempts) - 1) :
          /\ ~attempts[j].input_found
          /\ attempts[j + 1].input_found
          /\ attempts[j + 1].ffmpeg = "zero"
          /\ attempts[j + 1].idx = attempts[j].idx + 1

\* C19: in develop.py every path put on the queue is taken by the consumer
\* and followed by task_done, so that queue.join() returns: the consumer
\* task never ends while a put path is still without its task_done.
C19_NoPathLeftBehind ==
    consumer_task \in {"exited", "failed"} => unfinished_tasks = 0

====
